---- MODULE Spec2Model ----
(***************************************************************************)
(* Model of throw-cruncher (src/src/main.rs): the tolerant cell parsers,   *)
(* the record builder, the normalizer, the aggregator and the pipeline     *)
(* driver.                                                                 *)
(*                                                                         *)
(* Text is a sequence of one-character strings.  An f64 is a record        *)
(* [k, n, d]: k = "fin" is the rational n/d in lowest terms (d > 0),       *)
(* k = "nan" / "inf" / "ninf" are the IEEE specials.  Finite arithmetic is *)
(* exact: binary rounding, overflow to infinity and the sign of zero are   *)
(* not represented.                                                        *)
(***************************************************************************)
EXTENDS Integers, Sequences, FiniteSets, TLC

VARIABLES
    cell, parsed,                 \* one cell and best_effort_parse_float of it
    triple, fruit_res, fruit_raw, fruit, nmassage,  \* one item's cells, its record as built and as massaged
    fruit_vec, rep,               \* a list of records and report of it
    pc, width, records, responses, massaged_responses, files,
    flattened_report, stderr      \* main

vars == <<cell, parsed, triple, fruit_res, fruit_raw, fruit, nmassage, fruit_vec, rep,
          pc, width, records, responses, massaged_responses, files,
          flattened_report, stderr>>

parseVars == <<cell, parsed>>
fruitVars == <<triple, fruit_res, fruit_raw, fruit, nmassage>>
reportVars == <<fruit_vec, rep>>
mainVars == <<pc, width, records, responses, massaged_responses, files,
              flattened_report, stderr>>

----------------------------------------------------------------------------
(* Bounds *)
MaxLen == 3          \* longest generated cell text of the parser specification
MaxFruitLen == 2     \* longest generated numeric cell of the record specification
MaxFruits == 3       \* longest record list of the aggregator specification
MaxRows == 2         \* most rows of a dataset of the pipeline specification
MaxSeed == 2         \* the generated rows are Row(0, w) .. Row(MaxSeed, w)
MaxExtra == 1        \* most cells of a row beyond the schema's
MaxMassage == 2      \* most applications of massage to one record

(* Program constants *)
NumItems == 20       \* fields of struct Response
SkippedCells == 3    \* r.iter().skip(3)
ScaleMin == 1        \* clamp(1.0, 5.0)
ScaleMax == 5
FreshValue == 1      \* Some(1.0)

----------------------------------------------------------------------------
(* Characters *)
Digits == {"0", "1", "2", "3", "4", "5", "6", "7", "8", "9"}
DigitSeq == <<"0", "1", "2", "3", "4", "5", "6", "7", "8", "9">>
UpperSeq == <<"A","B","C","D","E","F","G","H","I","J","K","L","M",
              "N","O","P","Q","R","S","T","U","V","W","X","Y","Z">>
LowerSeq == <<"a","b","c","d","e","f","g","h","i","j","k","l","m",
              "n","o","p","q","r","s","t","u","v","w","x","y","z">>

IsDigit(c) == c \in Digits
DigitVal(c) == (CHOOSE i \in 1..10 : DigitSeq[i] = c) - 1

\* u8::to_ascii_lowercase
ToAsciiLowerChar(c) ==
    IF \E i \in 1..26 : UpperSeq[i] = c
    THEN LowerSeq[CHOOSE i \in 1..26 : UpperSeq[i] = c]
    ELSE c

\* str::to_ascii_lowercase
to_ascii_lowercase(s) == [i \in 1..Len(s) |-> ToAsciiLowerChar(s[i])]

\* str::contains
contains(s, pat) ==
    \E i \in 1..(Len(s) + 1) :
        /\ i + Len(pat) - 1 <= Len(s)
        /\ SubSeq(s, i, i + Len(pat) - 1) = pat

\* str::eq_ignore_ascii_case
EqIgnoreCase(s, t) == to_ascii_lowercase(s) = to_ascii_lowercase(t)

----------------------------------------------------------------------------
(* f64 *)
RECURSIVE GCD(_, _)
GCD(a, b) == IF b = 0 THEN a ELSE GCD(b, a % b)

Abs(x) == IF x < 0 THEN -x ELSE x

Fin(n, d) ==
    LET g == GCD(Abs(n), Abs(d))
        sgn == IF d < 0 THEN -1 ELSE 1
    IN [k |-> "fin", n |-> sgn * (n \div g), d |-> sgn * (d \div g)]
NaN == [k |-> "nan", n |-> 0, d |-> 1]
Inf == [k |-> "inf", n |-> 0, d |-> 1]
NInf == [k |-> "ninf", n |-> 0, d |-> 1]

IsFin(x) == x.k = "fin"
Sign(x) == CASE x.k = "inf" -> 1
             [] x.k = "ninf" -> -1
             [] x.k = "nan" -> 0
             [] OTHER -> IF x.n > 0 THEN 1 ELSE IF x.n < 0 THEN -1 ELSE 0
Signed(s) == IF s > 0 THEN Inf ELSE IF s < 0 THEN NInf ELSE NaN

FNeg(x) == CASE x.k = "inf" -> NInf
             [] x.k = "ninf" -> Inf
             [] x.k = "nan" -> NaN
             [] OTHER -> Fin(-x.n, x.d)

\* the comparisons of f64: every comparison with NaN is false
FLt(x, y) ==
    CASE x.k = "nan" \/ y.k = "nan" -> FALSE
      [] x.k = "ninf" -> y.k # "ninf"
      [] x.k = "inf" -> FALSE
      [] y.k = "inf" -> TRUE
      [] y.k = "ninf" -> FALSE
      [] OTHER -> x.n * y.d < y.n * x.d
FLe(x, y) == x.k # "nan" /\ y.k # "nan" /\ ~FLt(y, x)

FAdd(x, y) ==
    CASE x.k = "nan" \/ y.k = "nan" -> NaN
      [] IsFin(x) /\ IsFin(y) -> Fin(x.n * y.d + y.n * x.d, x.d * y.d)
      [] IsFin(x) -> y
      [] IsFin(y) -> x
      [] OTHER -> IF x.k = y.k THEN x ELSE NaN

FMul(x, y) ==
    CASE x.k = "nan" \/ y.k = "nan" -> NaN
      [] IsFin(x) /\ IsFin(y) -> Fin(x.n * y.n, x.d * y.d)
      [] OTHER -> Signed(Sign(x) * Sign(y))

FDiv(x, y) ==
    CASE x.k = "nan" \/ y.k = "nan" -> NaN
      [] IsFin(x) /\ IsFin(y) ->
            IF y.n # 0 THEN Fin(x.n * y.d, x.d * y.n) ELSE Signed(Sign(x))
      [] IsFin(x) -> Fin(0, 1)
      [] IsFin(y) -> Signed(Sign(x) * (IF Sign(y) < 0 THEN -1 ELSE 1))
      [] OTHER -> NaN

\* usize / i32 as f64
AsF64(i) == Fin(i, 1)

\* f64::clamp: if self < min { min } else if self > max { max } else { self }
clamp(x, lo, hi) == IF FLt(x, lo) THEN lo ELSE IF FLt(hi, x) THEN hi ELSE x

(* Option<f64> *)
None == [some |-> FALSE, v |-> Fin(0, 1)]
Some(x) == [some |-> TRUE, v |-> x]

----------------------------------------------------------------------------
(* <f64 as FromStr>::from_str, the target of input.parse() *)
RECURSIVE DigitRun(_, _)
\* number of consecutive ASCII digits of s from position p on
DigitRun(s, p) ==
    IF p <= Len(s) /\ IsDigit(s[p]) THEN 1 + DigitRun(s, p + 1) ELSE 0

RECURSIVE DigitsVal(_, _, _)
\* value of the n decimal digits of s that start at position p
DigitsVal(s, p, n) ==
    IF n = 0 THEN 0 ELSE 10 * DigitsVal(s, p, n - 1) + DigitVal(s[p + n - 1])

RECURSIVE Pow10(_)
Pow10(n) == IF n = 0 THEN 1 ELSE 10 * Pow10(n - 1)

ParseOk(x) == [ok |-> TRUE, v |-> x]
ParseErr == [ok |-> FALSE, v |-> NaN]

\* the exponent of a number whose mantissa is the integer mant over 10^b:
\* p is the position after the mantissa, p5 the position of the exponent's
\* digits, c their number
parse_scientific(s, mant, b, p, p5, c) ==
    IF s[p] \notin {"e", "E"} \/ c = 0 \/ p5 + c <= Len(s) THEN ParseErr
    ELSE IF s[p + 1] = "-"
         THEN ParseOk(Fin(mant, Pow10(b) * Pow10(DigitsVal(s, p5, c))))
         ELSE ParseOk(Fin(mant * Pow10(DigitsVal(s, p5, c)), Pow10(b)))

\* a integer digits, b fraction digits that start at p2, p3 the position
\* after the mantissa, p5 the position after "e" and an optional sign
parse_mantissa(s, a, p2, b, p3, p5) ==
    IF a + b = 0 THEN ParseErr
    ELSE IF p3 > Len(s)
         THEN ParseOk(Fin(DigitsVal(s, 1, a) * Pow10(b) + DigitsVal(s, p2, b),
                          Pow10(b)))
         ELSE parse_scientific(s, DigitsVal(s, 1, a) * Pow10(b) + DigitsVal(s, p2, b),
                               b, p3, p5, DigitRun(s, p5))

\* the position after an optional sign at p
AfterSign(s, p) == IF p <= Len(s) /\ s[p] \in {"+", "-"} THEN p + 1 ELSE p

parse_fraction(s, a, p2, b) ==
    parse_mantissa(s, a, p2, b, p2 + b, AfterSign(s, p2 + b + 1))

parse_integer(s, a) ==
    IF a + 1 <= Len(s) /\ s[a + 1] = "."
    THEN parse_fraction(s, a, a + 2, DigitRun(s, a + 2))
    ELSE parse_fraction(s, a, a + 1, 0)

\* digits [ "." digits ] [ ("e" | "E") [sign] digits ], at least one mantissa
\* digit, the whole of s consumed
parse_number(s) == parse_integer(s, DigitRun(s, 1))

\* "nan", "inf", "infinity", ASCII case ignored
parse_inf_nan(s, negative) ==
    IF EqIgnoreCase(s, <<"n","a","n">>) THEN ParseOk(NaN)
    ELSE IF \/ EqIgnoreCase(s, <<"i","n","f">>)
            \/ EqIgnoreCase(s, <<"i","n","f","i","n","i","t","y">>)
         THEN ParseOk(IF negative THEN NInf ELSE Inf)
         ELSE ParseErr

\* num is parse_number of the text after the sign
parse_signed(s, negative, num) ==
    IF num.ok THEN ParseOk(IF negative THEN FNeg(num.v) ELSE num.v)
    ELSE parse_inf_nan(s, negative)

parse_unsigned(s, negative) ==
    IF Len(s) = 0 THEN ParseErr ELSE parse_signed(s, negative, parse_number(s))

parse_f64(s) ==
    IF Len(s) = 0 THEN ParseErr
    ELSE parse_unsigned(IF s[1] \in {"-", "+"} THEN Tail(s) ELSE s, s[1] = "-")

----------------------------------------------------------------------------
(* REGEX = ([-]?[0-9]*\.?,?[0-9]+), leftmost-first with greedy quantifiers *)

\* a way to match at p: <<m, a, d, c>> = the minus sign taken (0/1), the
\* length of [0-9]*, the dot taken, the comma taken; [0-9]+ then takes the
\* whole digit run, which must not be empty
CharIs(s, p, c) == p <= Len(s) /\ s[p] = c
RegexWays(s, p) ==
    {w \in (0..1) \X (0..Len(s)) \X (0..1) \X (0..1) :
        /\ w[1] = 1 => CharIs(s, p, "-")
        /\ w[2] <= DigitRun(s, p + w[1])
        /\ w[3] = 1 => CharIs(s, p + w[1] + w[2], ".")
        /\ w[4] = 1 => CharIs(s, p + w[1] + w[2] + w[3], ",")
        /\ DigitRun(s, p + w[1] + w[2] + w[3] + w[4]) >= 1}

\* the backtracking order: a greedy quantifier tries the longer choice first
WayBefore(v, w) ==
    \E i \in 1..4 : v[i] > w[i] /\ \A j \in 1..(i - 1) : v[j] = w[j]

\* one past the last position of the match at p
FirstWay(ways) == CHOOSE v \in ways : \A x \in ways : x = v \/ WayBefore(v, x)
RegexEndOf(s, u) == u + DigitRun(s, u)
RegexEndBy(s, p, w) == RegexEndOf(s, p + w[1] + w[2] + w[3] + w[4])
RegexEnd(s, p) == RegexEndBy(s, p, FirstWay(RegexWays(s, p)))

\* Regex::captures(input).get(0): the match at the least position that has one
Least(S) == CHOOSE x \in S : \A y \in S : x <= y
RegexMatchAt(s, p) == [found |-> TRUE, str |-> SubSeq(s, p, RegexEnd(s, p) - 1)]
RegexFirst(s, starts) ==
    IF starts = {} THEN [found |-> FALSE, str |-> <<>>]
    ELSE RegexMatchAt(s, Least(starts))
RegexCaptures(s) == RegexFirst(s, {p \in 1..Len(s) : RegexWays(s, p) # {}})

----------------------------------------------------------------------------
(* fn parse_bool *)

\* parse_bool comparing without regard to ASCII case
parse_bool_anycase(input) ==
    IF EqIgnoreCase(input, <<"Y","e","s">>) THEN [ok |-> TRUE, v |-> TRUE]
    ELSE IF EqIgnoreCase(input, <<"N","o">>) THEN [ok |-> TRUE, v |-> FALSE]
    ELSE [ok |-> FALSE, v |-> FALSE]

parse_bool(input) ==
    IF input = <<"Y","e","s">> THEN [ok |-> TRUE, v |-> TRUE]
    ELSE IF input = <<"N","o">> THEN [ok |-> TRUE, v |-> FALSE]
    ELSE [ok |-> FALSE, v |-> FALSE]

(* fn best_effort_parse_float: tag "Float" is Ok(FloatNote::Float(f)),      *)
(* "FloatNote" is Ok(FloatNote::FloatNote(f, note)), "Err" is Err(note),   *)
(* "panic" is the unwrap() of line 100 on a ParseFloatError.               *)
\* line 100: capture is capture.as_str().parse()
unwrap_capture(input, capture) ==
    IF capture.ok THEN [tag |-> "FloatNote", f |-> capture.v, note |-> input]
    ELSE [tag |-> "panic", f |-> NaN, note |-> <<>>]

\* lines 97-105: captures is REGEX.captures(input)
recover_float(input, captures) ==
    IF captures.found THEN unwrap_capture(input, parse_f64(captures.str))
    ELSE [tag |-> "Err", f |-> NaN, note |-> input]

\* lines 95-96: result is input.parse()
strict_or_recover(input, result) ==
    IF result.ok THEN [tag |-> "Float", f |-> result.v, note |-> <<>>]
    ELSE recover_float(input, RegexCaptures(input))

best_effort_parse_float(input) == strict_or_recover(input, parse_f64(input))

----------------------------------------------------------------------------
(* struct Fruit *)
Fruit(wt, e, d, notes) ==
    [would_throw |-> wt, expected_rancidness |-> e,
     desired_rancidness |-> d, notes |-> notes]
NoFruit == Fruit(FALSE, None, None, <<>>)

Separator == <<" ", "|", " ">>
Fresh == <<"f", "r", "e", "s", "h">>

\* the value of the match of lines 19-37
expected_rancidness_of(r) ==
    CASE r.tag = "Float" -> Some(r.f)
      [] r.tag = "FloatNote" -> Some(r.f)
      [] OTHER -> IF contains(to_ascii_lowercase(r.note), Fresh)
                  THEN Some(AsF64(FreshValue)) ELSE None

\* the desired value with the word looked for in the text as written
desired_rancidness_of_casesensitive(r) ==
    CASE r.tag = "Float" -> Some(r.f)
      [] r.tag = "FloatNote" -> Some(r.f)
      [] OTHER -> IF contains(r.note, Fresh)
                  THEN Some(AsF64(FreshValue)) ELSE None

\* the value of the match of lines 39-59
desired_rancidness_of(r) ==
    CASE r.tag = "Float" -> Some(r.f)
      [] r.tag = "FloatNote" -> Some(r.f)
      [] OTHER -> IF contains(to_ascii_lowercase(r.note), Fresh)
                  THEN Some(AsF64(FreshValue)) ELSE None

\* what the arms of a match push to notes: nothing for Float, the note otherwise
pushed_note(r) == IF r.tag = "Float" THEN <<>> ELSE r.note

(* Result of a from_iter: res is "Ok", "Err" (the ? operator returned an    *)
(* error, err says which) or "panic"; rest is what the iterator still holds *)
\* the &'static str of an Err: "end of row", or "malformed bool: {input}"
ErrMsg(text, input) == [text |-> text, input |-> input]
NoErr == ErrMsg("", <<>>)
FromIterErr(err, rest) == [res |-> "Err", err |-> err, val |-> <<>>, rest |-> rest]
FromIterPanic == [res |-> "panic", err |-> NoErr, val |-> <<>>, rest |-> <<>>]

\* lines 38-65: e is the outcome of the expected cell, d of the desired cell
build_fruit(iter, would_throw, e, d) ==
    [res |-> "Ok", err |-> NoErr,
     val |-> <<Fruit(would_throw, expected_rancidness_of(e), desired_rancidness_of(d),
                     IF d.tag = "Float" THEN pushed_note(e)
                     ELSE pushed_note(e)
                            \o (IF pushed_note(e) = <<>> THEN <<>> ELSE Separator)
                            \o d.note)>>,
     rest |-> SubSeq(iter, 4, Len(iter))]

\* line 39 on: the third next() and the desired cell
from_iter_desired(iter, would_throw, e, d) ==
    IF d.tag = "panic" THEN FromIterPanic ELSE build_fruit(iter, would_throw, e, d)

\* the third next() falling back to an empty cell when the row has run out
from_iter_expected_lenient(iter, would_throw, e) ==
    IF e.tag = "panic" THEN FromIterPanic
    ELSE from_iter_desired(iter, would_throw, e,
            best_effort_parse_float(IF Len(iter) < 3 THEN <<>> ELSE iter[3]))

\* line 19 on: the second next() and the expected cell
from_iter_expected(iter, would_throw, e) ==
    IF e.tag = "panic" THEN FromIterPanic
    ELSE IF Len(iter) < 3 THEN FromIterErr(ErrMsg("end of row", <<>>), <<>>)
    ELSE from_iter_desired(iter, would_throw, e, best_effort_parse_float(iter[3]))

\* line 18: would_throw is parse_bool of the first cell
from_iter_flag(iter, would_throw) ==
    IF ~would_throw.ok
    THEN FromIterErr(ErrMsg("malformed bool: ", iter[1]), Tail(iter))
    ELSE IF Len(iter) < 2 THEN FromIterErr(ErrMsg("end of row", <<>>), <<>>)
    ELSE from_iter_expected(iter, would_throw.v, best_effort_parse_float(iter[2]))

\* Fruit::from_iter; iter is the sequence of cells the iterator still yields
Fruit_from_iter(iter) ==
    IF Len(iter) < 1 THEN FromIterErr(ErrMsg("end of row", <<>>), <<>>)
    ELSE from_iter_flag(iter, parse_bool(iter[1]))

\* Option::map(|f| f.clamp(1.0, 5.0))
map_clamp(o) ==
    IF o.some THEN Some(clamp(o.v, AsF64(ScaleMin), AsF64(ScaleMax))) ELSE None

\* Fruit::massage with the two numeric fields crossed over
Fruit_massage_crossed(self) ==
    Fruit(self.would_throw, map_clamp(self.desired_rancidness),
          map_clamp(self.expected_rancidness), self.notes)

\* Fruit::massage
Fruit_massage(self) ==
    Fruit(self.would_throw, map_clamp(self.expected_rancidness),
          map_clamp(self.desired_rancidness), self.notes)

----------------------------------------------------------------------------
(* Generated texts *)
Strings(A, n) == UNION {[1..m -> A] : m \in 0..n}

Yes == <<"Y", "e", "s">>
No == <<"N", "o">>

ParseAlphabet == {"2", "7", "-", ".", ",", " ", "e"}
ParseWords ==
    { <<"N","a","N">>, <<"n","a","n">>, <<"i","n","f">>, <<"-","i","n","f">>,
      <<"I","n","f","i","n","i","t","y">>, <<"+","2">>, <<"2","E","+","1">>,
      <<"1",".","5","e","-","1">>, <<" ","3",".","5"," ">>,
      <<"1",",","0","0","0">>, <<"1",".",",","5">>, <<"-","2",".","7","5">>,
      <<"F","r","e","s","h","!">>, <<"u","n","s","u","r","e">>,
      <<"a","b","o","u","t"," ","2"," ","o","r"," ","3">>,
      <<"0","0","7">>, <<"-",".","5","x">>, <<"2","-","7",".","5">> }
ParseCells == Strings(ParseAlphabet, MaxLen) \cup ParseWords

FruitAlphabet == {"2", "7", ".", ","}
FruitWords ==
    { <<"N","a","N">>, <<"i","n","f">>, <<"-","i","n","f">>,
      <<"F","r","e","s","h","!">>, <<"f","r","e","s","h">>,
      <<"u","n","s","u","r","e">>, <<"0">>, <<"3",".","5">>,
      <<"-","2">>, <<"-",".","7">>, <<"2","-","7">>, <<"-">>,
      <<"a","b","o","u","t"," ","2">>, <<"3"," ","F","R","E","S","H">>,
      <<"3">>, <<"F","r","e","s","h">> }
FruitCells == Strings(FruitAlphabet, MaxFruitLen) \cup FruitWords
FlagCells == {Yes, No}

----------------------------------------------------------------------------
(* Idle values of the variables a specification does not use *)
ParseIdle == cell = <<>> /\ parsed = [tag |-> "none", f |-> NaN, note |-> <<>>]
FruitIdle ==
    /\ triple = <<>>
    /\ fruit_res = "none"
    /\ fruit_raw = NoFruit
    /\ fruit = NoFruit
    /\ nmassage = 0
ReportIdle == fruit_vec = <<>> /\ rep = <<>>
MainIdle ==
    /\ pc = "idle"
    /\ width = 0
    /\ stderr = <<>>
    /\ records = <<>>
    /\ responses = <<>>
    /\ massaged_responses = <<>>
    /\ files = <<>>
    /\ flattened_report = <<>>

----------------------------------------------------------------------------
(* The scale value parser applied to one cell *)
ParseCell ==
    /\ parsed.tag = "none"
    /\ \E c \in ParseCells :
        /\ cell' = c
        /\ parsed' = best_effort_parse_float(c)
    /\ UNCHANGED <<fruitVars, reportVars, mainVars>>

InitParse == ParseIdle /\ FruitIdle /\ ReportIdle /\ MainIdle
NextParse == ParseCell
SpecParse == InitParse /\ [][NextParse]_vars

----------------------------------------------------------------------------
(* The record builder and the normalizer applied to one item's three cells *)
Built(r) ==
    /\ fruit_res' = r.res
    /\ fruit_raw' = (IF r.res = "Ok" THEN r.val[1] ELSE NoFruit)
    /\ fruit' = fruit_raw'

BuildFruit ==
    /\ fruit_res = "none"
    /\ \E wt \in FlagCells, e \in FruitCells, d \in FruitCells :
        /\ triple' = <<wt, e, d>>
        /\ Built(Fruit_from_iter(triple'))
    /\ UNCHANGED <<nmassage, parseVars, reportVars, mainVars>>

MassageFruit ==
    /\ fruit_res = "Ok"
    /\ nmassage < MaxMassage
    /\ fruit' = Fruit_massage(fruit)
    /\ nmassage' = nmassage + 1
    /\ UNCHANGED <<triple, fruit_res, fruit_raw, parseVars, reportVars, mainVars>>

InitFruit == ParseIdle /\ FruitIdle /\ ReportIdle /\ MainIdle
NextFruit == BuildFruit \/ MassageFruit
SpecFruit == InitFruit /\ [][NextFruit]_vars

----------------------------------------------------------------------------
(* struct Response: the twenty Fruit fields in declaration order, 1..NumItems *)

\* a field initialiser Fruit::from_iter(iter)? that returned f, after the
\* fields of prev
FieldResult(prev, f) ==
    IF f.res # "Ok" THEN f
    ELSE [res |-> "Ok", err |-> NoErr,
          val |-> Append(prev.val, f.val[1]), rest |-> f.rest]
NextField(prev) ==
    IF prev.res # "Ok" THEN prev ELSE FieldResult(prev, Fruit_from_iter(prev.rest))

RECURSIVE ResponseFields(_, _)
\* the first k field initialisers of Response::from_iter, run in order on
\* the one iterator; the ? of a field returns the first error
ResponseFields(iter, k) ==
    IF k = 0 THEN [res |-> "Ok", err |-> NoErr, val |-> <<>>, rest |-> iter]
    ELSE NextField(ResponseFields(iter, k - 1))

\* Response::from_iter
Response_from_iter(iter) == ResponseFields(iter, NumItems)

\* Response::massage with the second field taken from the first
Response_massage_miscopied(self) ==
    [k \in 1..NumItems |-> Fruit_massage(self[IF k = 2 THEN 1 ELSE k])]

\* Response::massage
Response_massage(self) == [k \in 1..NumItems |-> Fruit_massage(self[k])]

\* Iterator::skip(n) of a row's cells
skip(r, n) == SubSeq(r, n + 1, Len(r))

\* FlattenedResponse::map
FlattenedResponse_map(response) ==
    [j \in 1..(3 * NumItems) |->
        LET f == response[((j - 1) \div 3) + 1]
        IN  CASE (j - 1) % 3 = 0 -> <<"would_throw", f.would_throw>>
              [] (j - 1) % 3 = 1 -> <<"expected_rancidness", f.expected_rancidness>>
              [] OTHER -> <<"desired_rancidness", f.desired_rancidness>>]

\* VecResponse::from_iter: one Vec<Fruit> per item, in row order
VecResponse_from_iter(iter) ==
    [k \in 1..NumItems |-> [i \in 1..Len(iter) |-> iter[i][k]]]

----------------------------------------------------------------------------
(* fn report *)
IsThrow(f) == f.would_throw

\* IsNotThrow without the .not()
IsNotThrow_nonot(f) == f.would_throw

IsNotThrow(f) == ~f.would_throw
HasExpected(f) == f.expected_rancidness.some
HasDesired(f) == f.desired_rancidness.some

\* filter_map(|f| f.expected_rancidness)
expected_values(fruits) ==
    LET kept == SelectSeq(fruits, HasExpected)
    IN  [i \in 1..Len(kept) |-> kept[i].expected_rancidness.v]

\* filter_map(|f| f.desired_rancidness)
desired_values(fruits) ==
    LET kept == SelectSeq(fruits, HasDesired)
    IN  [i \in 1..Len(kept) |-> kept[i].desired_rancidness.v]

\* average_step weighting the previous average by i instead of i - 1
average_step_offbyone(s, e, i) == FDiv(FAdd(e, FMul(s, AsF64(i))), AsF64(i))

\* the closure |s, (e, i)| (e as f64 + s * (i - 1) as f64) / i as f64
average_step(s, e, i) == FDiv(FAdd(e, FMul(s, AsF64(i - 1))), AsF64(i))

RECURSIVE fold_average(_, _)
\* .zip(1..).fold(0.0, ...) over the first i values
fold_average(vals, i) ==
    IF i = 0 THEN AsF64(0)
    ELSE average_step(fold_average(vals, i - 1), vals[i], i)

report(fruits) ==
    [would_throw_count |-> Len(SelectSeq(fruits, IsThrow)),
     would_not_throw_count |-> Len(SelectSeq(fruits, IsNotThrow)),
     average_expected_rancidness |->
        fold_average(expected_values(fruits), Len(expected_values(fruits))),
     average_desired_rancidness |->
        fold_average(desired_values(fruits), Len(desired_values(fruits)))]

\* FlattenedReport::from_vec_response
FlattenedReport_from_vec_response(vec_response) ==
    [k \in 1..NumItems |-> report(vec_response[k])]

----------------------------------------------------------------------------
(* The aggregator applied to one list of records *)
ExpectedVals == {None, Some(Fin(2, 1)), Some(Fin(4, 1)), Some(Fin(5, 2))}
DesiredVals == {None, Some(Fin(1, 1)), Some(Inf)}
ReportFruits ==
    {Fruit(wt, e, d, <<>>) : wt \in BOOLEAN, e \in ExpectedVals, d \in DesiredVals}

PushFruit ==
    /\ Len(rep) = 0
    /\ Len(fruit_vec) < MaxFruits
    /\ \E f \in ReportFruits : fruit_vec' = Append(fruit_vec, f)
    /\ UNCHANGED <<rep, parseVars, fruitVars, mainVars>>

RunReport ==
    /\ Len(rep) = 0
    /\ rep' = <<report(fruit_vec)>>
    /\ UNCHANGED <<fruit_vec, parseVars, fruitVars, mainVars>>

InitReport == ParseIdle /\ FruitIdle /\ ReportIdle /\ MainIdle
NextReport == PushFruit \/ RunReport
SpecReport == InitReport /\ [][NextReport]_vars

----------------------------------------------------------------------------
(* Generated datasets.  A row has the three leading cells, then for item   *)
(* k = 0, 1, ... a flag cell and two numeric cells taken from NumPool.     *)
RowCells == SkippedCells + 3 * NumItems

NumPool ==
    << <<"3">>, <<"3",".","5">>, <<"0">>, <<"7">>, <<"u","n","s","u","r","e">>,
       <<"-","2">>, <<"a","b","o","u","t"," ","2">>,
       <<"F","r","e","s","h","!">>, <<>>, <<"N","a","N">>, <<"i","n","f">>,
       <<" ","4"," ">>, <<"1",".","2","5">> >>
MetaCells == << <<"2","0","2","4">>, <<"a","@","b">>, <<"Y","e","s">> >>
BadFlags ==
    << <<"y","e","s">>, <<"m","a","y","b","e">>, <<>>, <<" ","Y","e","s">>,
       <<"N","O">>, <<"N","o"," ">>, <<"3">> >>
Comma == <<"1", ",", "5">>

CellAt(seed, j) ==
    IF j <= SkippedCells THEN MetaCells[j]
    ELSE LET k == (j - SkippedCells - 1) \div 3
             f == (j - SkippedCells - 1) % 3
         IN  IF f = 0 THEN (IF (k + seed) % 3 = 0 THEN No ELSE Yes)
             ELSE NumPool[((5 * seed + 2 * k + f - 1) % Len(NumPool)) + 1]

Row(seed, w) == [j \in 1..w |-> CellAt(seed, j)]
\* Row(0, w) with cell j replaced by c
RowWith(w, j, c) == [Row(0, w) EXCEPT ![j] = c]

RowsFor(w) ==
    {Row(seed, w) : seed \in 0..MaxSeed}
    \cup {RowWith(w, SkippedCells + 3 * k + 1, BadFlags[(k % Len(BadFlags)) + 1]) :
            k \in {i \in 0..(NumItems - 1) : SkippedCells + 3 * i + 1 <= w}}
    \cup {RowWith(w, j, Comma) : j \in {i \in {5, RowCells} : i <= w}}
    \cup {Row(0, w + 1)}

----------------------------------------------------------------------------
(* fn main.  The csv Reader is built with its defaults: the first record   *)
(* is the header, and a record whose number of fields differs from the     *)
(* header's is an Err, on which Result::unwrap panics.                     *)

\* a failure that is reported while the run goes on to write what it has
Panic_continue(msg) == pc' = "write_ingested" /\ stderr' = msg

Panic(msg) == pc' = "panicked" /\ stderr' = msg

File(name, content) == [name |-> name, content |-> content]

\* collect::<Result<Vec<Response>, _>>().expect(..) given the next res
Collect(res) ==
    IF res.res = "Ok"
    THEN /\ responses' = Append(responses, res.val)
         /\ UNCHANGED <<pc, stderr>>
    ELSE IF res.res = "Err"
    THEN /\ Panic(<<"data ingest error", res.err>>)
         /\ UNCHANGED responses
    ELSE /\ Panic(<<"called Result::unwrap() on an Err value",
                    ErrMsg("ParseFloatError", <<>>)>>)
         /\ UNCHANGED responses

\* one step of .records().map(Result::unwrap).map(from_iter).collect()
IngestRecord ==
    /\ pc = "ingest"
    /\ Len(records) < MaxRows
    /\ \E r \in RowsFor(width) :
        /\ records' = Append(records, r)
        /\ IF Len(r) # width
           THEN /\ Panic(<<"called Result::unwrap() on an Err value",
                           ErrMsg("UnequalLengths", <<>>)>>)
                /\ UNCHANGED responses
           ELSE Collect(Response_from_iter(skip(r, SkippedCells)))
    /\ UNCHANGED <<width, massaged_responses, files, flattened_report,
                   parseVars, fruitVars, reportVars>>

\* the reader is exhausted: collect returns Ok and expect unwraps it
EndOfRecords ==
    /\ pc = "ingest"
    /\ pc' = "write_ingested"
    /\ UNCHANGED <<width, records, responses, massaged_responses, files,
                   flattened_report, stderr, parseVars, fruitVars, reportVars>>

WriteIngested ==
    /\ pc = "write_ingested"
    /\ files' = Append(files, File("result_ingested.json", responses))
    /\ pc' = "massage"
    /\ UNCHANGED <<width, records, responses, massaged_responses,
                   flattened_report, stderr, parseVars, fruitVars, reportVars>>

Massage ==
    /\ pc = "massage"
    /\ massaged_responses' =
            [i \in 1..Len(responses) |-> Response_massage(responses[i])]
    /\ pc' = "write_massaged_json"
    /\ UNCHANGED <<width, records, responses, files, flattened_report, stderr,
                   parseVars, fruitVars, reportVars>>

WriteMassagedJson ==
    /\ pc = "write_massaged_json"
    /\ files' = Append(files, File("result_massaged.json", massaged_responses))
    /\ pc' = "write_massaged_csv"
    /\ UNCHANGED <<width, records, responses, massaged_responses,
                   flattened_report, stderr, parseVars, fruitVars, reportVars>>

WriteMassagedCsv ==
    /\ pc = "write_massaged_csv"
    /\ files' = Append(files, File("result_massaged.csv",
            [i \in 1..Len(massaged_responses) |->
                FlattenedResponse_map(massaged_responses[i])]))
    /\ pc' = "report"
    /\ UNCHANGED <<width, records, responses, massaged_responses,
                   flattened_report, stderr, parseVars, fruitVars, reportVars>>

Report ==
    /\ pc = "report"
    /\ flattened_report' = FlattenedReport_from_vec_response(
                                VecResponse_from_iter(massaged_responses))
    /\ pc' = "write_result"
    /\ UNCHANGED <<width, records, responses, massaged_responses, files, stderr,
                   parseVars, fruitVars, reportVars>>

WriteResult ==
    /\ pc = "write_result"
    /\ files' = Append(files, File("result.csv", <<flattened_report>>))
    /\ pc' = "done"
    /\ UNCHANGED <<width, records, responses, massaged_responses,
                   flattened_report, stderr, parseVars, fruitVars, reportVars>>

Init ==
    /\ ParseIdle /\ FruitIdle /\ ReportIdle
    /\ pc = "ingest"
    /\ width \in 0..(RowCells + MaxExtra)
    /\ records = <<>>
    /\ responses = <<>>
    /\ massaged_responses = <<>>
    /\ files = <<>>
    /\ flattened_report = <<>>
    /\ stderr = <<>>

Next ==
    \/ IngestRecord
    \/ EndOfRecords
    \/ WriteIngested
    \/ Massage
    \/ WriteMassagedJson
    \/ WriteMassagedCsv
    \/ Report
    \/ WriteResult

Spec == Init /\ [][Next]_vars

----------------------------------------------------------------------------
(* Properties *)

\* C1: best_effort_parse_float never panics: every cell text gives one of
\* the three outcomes Float, FloatNote or Err.
C1_NeverPanics == parsed.tag \in {"none", "Float", "FloatNote", "Err"}

\* the strict whole-cell parse of a cell succeeds
StrictlyParsed(c) == parse_f64(c).ok

\* C2: a built record's notes are non-empty exactly when one of its two
\* numeric cells was not parsed by the strict whole-cell parse.
C2_NotesIffNotStrict ==
    fruit_res = "Ok" =>
        (fruit_raw.notes # <<>>
            <=> (~StrictlyParsed(triple[2]) \/ ~StrictlyParsed(triple[3])))

\* some row read so far is one main cannot ingest
SomeRowFailed ==
    \E i \in 1..Len(records) :
        \/ Len(records[i]) # width
        \/ Response_from_iter(skip(records[i], SkippedCells)).res # "Ok"
FileNames == [i \in 1..Len(files) |-> files[i].name]
AllFileNames == <<"result_ingested.json", "result_massaged.json",
                  "result_massaged.csv", "result.csv">>

\* C3: a row that cannot be ingested aborts the run with no output written;
\* output exists only when every row read was ingested (no row read has
\* failed), and a finished run has written the four outputs, each once.
C3_FailFastNoPartialOutput ==
    /\ pc = "panicked" => files = <<>>
    /\ files # <<>> => Len(responses) = Len(records)
    /\ (pc = "panicked" \/ ~SomeRowFailed)
    /\ FileNames = SubSeq(AllFileNames, 1, Len(files))
    /\ pc = "done" => FileNames = AllFileNames
C3_Witness ==
    /\ pc = "panicked"
    /\ Len(responses) >= 1
    /\ Len(stderr) = 2
    /\ stderr[1] = "data ingest error"

RECURSIVE SumOf(_, _)
SumOf(vals, i) == IF i = 0 THEN AsF64(0) ELSE FAdd(SumOf(vals, i - 1), vals[i])
\* the sum of the values divided by their number, 0 when there is none
MeanOf(vals) ==
    IF Len(vals) = 0 THEN AsF64(0)
    ELSE FDiv(SumOf(vals, Len(vals)), AsF64(Len(vals)))
RECURSIVE PresentValues(_, _, _)
\* the present values of field fld ("e" or "d") of the first i records of fs
PresentValues(fs, fld, i) ==
    IF i = 0 THEN <<>>
    ELSE LET o == IF fld = "e" THEN fs[i].expected_rancidness
                  ELSE fs[i].desired_rancidness
             before == PresentValues(fs, fld, i - 1)
         IN  IF o.some THEN Append(before, o.v) ELSE before

\* C4: the running-average fold of report equals the sum of the present
\* values divided by their number, and is 0 when no value is present.
C4_AverageIsSumOverCount ==
    Len(rep) = 1 =>
        /\ rep[1].average_expected_rancidness
              = MeanOf(PresentValues(fruit_vec, "e", Len(fruit_vec)))
        /\ rep[1].average_desired_rancidness
              = MeanOf(PresentValues(fruit_vec, "d", Len(fruit_vec)))
C4_Witness ==
    /\ Len(rep) = 1
    /\ Len(fruit_vec) = 3
    /\ fruit_vec[1].expected_rancidness = Some(Fin(2, 1))
    /\ fruit_vec[2].expected_rancidness = None
    /\ fruit_vec[3].expected_rancidness = Some(Fin(4, 1))
    /\ rep[1].average_expected_rancidness = Fin(3, 1)
    /\ \A i \in 1..3 : fruit_vec[i].desired_rancidness = None
    /\ rep[1].average_desired_rancidness = Fin(0, 1)

\* the flag cell of item k (1..NumItems) of row r
FlagCell(r, k) == r[SkippedCells + 3 * (k - 1) + 1]

\* C5: in the aggregate report the two counts of every item add up to the
\* number of rows, the first counting the rows whose flag is Yes and the
\* second the rows whose flag is No.
C5_CountsPartitionRows ==
    pc \in {"write_result", "done"} =>
        \A k \in 1..NumItems :
            /\ flattened_report[k].would_throw_count
                + flattened_report[k].would_not_throw_count = Len(records)
            /\ flattened_report[k].would_throw_count
                = Cardinality({i \in 1..Len(records) : FlagCell(records[i], k) = Yes})
            /\ flattened_report[k].would_not_throw_count
                = Cardinality({i \in 1..Len(records) : FlagCell(records[i], k) = No})
C5_Witness ==
    /\ pc = "done"
    /\ Len(records) >= 2
    /\ \E k \in 1..NumItems :
        /\ flattened_report[k].would_throw_count >= 1
        /\ flattened_report[k].would_not_throw_count >= 1

InScale(o) ==
    o.some => (FLe(AsF64(ScaleMin), o.v) /\ FLe(o.v, AsF64(ScaleMax)))

\* C6: after massage every present expected_rancidness and
\* desired_rancidness lies in [1, 5].
C6_NormalizedInScale ==
    (fruit_res = "Ok" /\ nmassage >= 1) =>
        (InScale(fruit.expected_rancidness) /\ InScale(fruit.desired_rancidness))

\* C7: massage of an already massaged record returns the identical record.
C7_MassageIdempotent == [][nmassage >= 1 => fruit' = fruit]_vars
C7_Witness ==
    /\ nmassage = 2
    /\ fruit # fruit_raw
    /\ fruit.expected_rancidness # fruit.desired_rancidness

Massaged == pc \in {"write_massaged_json", "write_massaged_csv", "report",
                    "write_result", "done"}

\* C8: massage leaves would_throw and notes as they were, keeps an absent
\* value absent and a present value present, and the massaged row holds,
\* in each of its twenty slots, the record of the same slot.
C8_MassageFrame ==
    Massaged =>
        /\ Len(massaged_responses) = Len(responses)
        /\ \A i \in 1..Len(responses) : \A k \in 1..NumItems :
            LET a == responses[i][k]
                b == massaged_responses[i][k]
            IN  /\ b.would_throw = a.would_throw
                /\ b.notes = a.notes
                /\ b.expected_rancidness.some = a.expected_rancidness.some
                /\ b.desired_rancidness.some = a.desired_rancidness.some
C8_Witness ==
    /\ pc = "done"
    /\ \E i \in 1..Len(responses) : \E k \in 1..NumItems :
        /\ massaged_responses[i][k] # responses[i][k]
        /\ responses[i][k].notes # <<>>
        /\ ~responses[i][k].desired_rancidness.some

\* the items of row r whose flag cell exists and is neither Yes nor No
MalformedItems(r) ==
    {k \in 1..NumItems :
        /\ SkippedCells + 3 * (k - 1) + 1 <= Len(r)
        /\ FlagCell(r, k) \notin {Yes, No}}

\* C9: would_throw is true exactly for the flag text Yes and false exactly
\* for No; a row with any other flag text in any item is not ingested, and
\* it is the last row read: the run has stopped and has written nothing.
C9_StrictBoolean ==
    /\ \A i \in 1..Len(responses) : \A k \in 1..NumItems :
        /\ FlagCell(records[i], k) \in {Yes, No}
        /\ responses[i][k].would_throw = (FlagCell(records[i], k) = Yes)
    /\ \A i \in 1..Len(records) :
        MalformedItems(records[i]) # {} =>
            /\ pc = "panicked"
            /\ i = Len(records)
            /\ Len(responses) = i - 1
            /\ files = <<>>
C9_Witness ==
    /\ pc = "panicked"
    /\ Len(records) = 2
    /\ Len(responses) = 1
    /\ MalformedItems(records[2]) = {NumItems}
    /\ stderr = <<"data ingest error",
                  ErrMsg("malformed bool: ", FlagCell(records[2], NumItems))>>

\* the record Fruit::from_iter builds from the three cells of item k of row r
ItemOf(r, k) ==
    Fruit_from_iter(SubSeq(r, SkippedCells + 3 * (k - 1) + 1,
                              SkippedCells + 3 * k)).val[1]

\* C10: a row of at least 63 cells whose flag cells are all valid is built
\* into twenty records, the k-th from cells 3+3k, 3+3k+1 and 3+3k+2
\* (counted from 0), whatever follows the 63rd cell.
C10_CellsOfItems ==
    \A i \in 1..Len(records) :
        (/\ Len(records[i]) = width
         /\ Len(records[i]) >= RowCells
         /\ MalformedItems(records[i]) = {})
        => /\ i <= Len(responses)
           /\ \A k \in 1..NumItems : responses[i][k] = ItemOf(records[i], k)

\* the message main stops with when a row runs out of cells
EndOfRowError == <<"data ingest error", ErrMsg("end of row", <<>>)>>

\* the positions, among the cells left after the skipped ones, of a flag
\* cell that is neither Yes nor No or of a numeric cell the parser panics on
BadCells(cells) ==
    {j \in 1..Len(cells) :
        IF j % 3 = 1 THEN cells[j] \notin {Yes, No}
        ELSE best_effort_parse_float(cells[j]).tag = "panic"}

\* C11 as stated: a row read with fewer than 60 cells after the three
\* skipped ones stops the run with the end-of-row error and gives no record.
C11_ShortRowEndOfRow ==
    \A i \in 1..Len(records) :
        (Len(records[i]) = width /\ width < RowCells) =>
            /\ pc = "panicked"
            /\ Len(responses) < i
            /\ stderr = EndOfRowError

\* C11 amended: such a row never gives a record and stops the run; the
\* failure is the end-of-row error when every flag cell present is Yes or No
\* and no numeric cell present makes the parser panic, and otherwise it is
\* the failure of the first such cell: the malformed-bool error carrying
\* that flag cell's text, or the parser's panic.
C11_ShortRowFails ==
    \A i \in 1..Len(records) :
        (Len(records[i]) = width /\ width < RowCells) =>
            /\ pc = "panicked"
            /\ Len(responses) < i
            /\ files = <<>>
            /\ LET cells == skip(records[i], SkippedCells)
                   bad == BadCells(cells)
                   first == Least(bad)
               IN  IF bad = {} THEN stderr = EndOfRowError
                   ELSE IF first % 3 = 1
                   THEN stderr = <<"data ingest error",
                                   ErrMsg("malformed bool: ", cells[first])>>
                   ELSE stderr = <<"called Result::unwrap() on an Err value",
                                   ErrMsg("ParseFloatError", <<>>)>>
C11_Witness ==
    /\ pc = "panicked"
    /\ width = RowCells - 1
    /\ Len(records) = 1
    /\ Len(records[1]) = width
    /\ BadCells(skip(records[1], SkippedCells)) = {}
    /\ stderr = EndOfRowError

RECURSIVE TrimStart(_)
TrimStart(s) == IF s # <<>> /\ Head(s) = " " THEN TrimStart(Tail(s)) ELSE s
RECURSIVE TrimEnd(_)
TrimEnd(s) ==
    IF s # <<>> /\ s[Len(s)] = " " THEN TrimEnd(SubSeq(s, 1, Len(s) - 1)) ELSE s
\* the cell text without the whitespace around it
Trimmed(s) == TrimEnd(TrimStart(s))

\* C12: a cell whose text, once the whitespace around it is removed, is a
\* valid number gives the plain outcome Float: that exact value, no note.
C12_TrimmedStrictParse ==
    (parsed.tag # "none" /\ StrictlyParsed(Trimmed(cell))) =>
        /\ parsed.tag = "Float"
        /\ parsed.f = parse_f64(Trimmed(cell)).v
        /\ parsed.note = <<>>

\* one past the end of the longest "digits, optional point, digits" at q,
\* 0 when there is none
PlainEnd(s, q) ==
    LET r == DigitRun(s, q)
    IN  IF CharIs(s, q + r, ".") /\ DigitRun(s, q + r + 1) >= 1
        THEN q + r + 1 + DigitRun(s, q + r + 1)
        ELSE IF r >= 1 THEN q + r ELSE 0
\* the same with the optional minus sign in front, starting at p
SignedEnd(s, p) ==
    IF CharIs(s, p, "-") /\ PlainEnd(s, p + 1) # 0 THEN PlainEnd(s, p + 1)
    ELSE PlainEnd(s, p)
\* the positions of s where an embedded number starts
EmbeddedStarts(s) == {p \in 1..Len(s) : SignedEnd(s, p) # 0}
\* the first (leftmost) embedded number of s
EmbeddedNumber(s) ==
    SubSeq(s, Least(EmbeddedStarts(s)), SignedEnd(s, Least(EmbeddedStarts(s))) - 1)

\* C13: a cell that is not a strict number but contains an embedded number
\* (optional minus, digits, optional decimal point, digits) gives FloatNote:
\* the value of the leftmost such substring, and the whole cell as the note.
C13_RecoversFirstNumber ==
    (parsed.tag # "none" /\ ~StrictlyParsed(cell) /\ EmbeddedStarts(cell) # {}) =>
        /\ parsed.tag = "FloatNote"
        /\ parsed.f = parse_f64(EmbeddedNumber(cell)).v
        /\ parsed.note = cell

HasDigit(c) == \E i \in 1..Len(c) : IsDigit(c[i])
\* the text holds the word fresh in any mix of upper and lower case
HasFreshWord(c) ==
    \E i \in 1..Len(c) :
        i + 4 <= Len(c) /\ EqIgnoreCase(SubSeq(c, i, i + 4), Fresh)
\* what a numeric field of a built record must hold for its cell c
FieldValueFor(c) ==
    IF StrictlyParsed(c) THEN Some(parse_f64(c).v)
    ELSE IF HasDigit(c) THEN Some(parse_f64(EmbeddedNumber(c)).v)
    ELSE IF HasFreshWord(c) THEN Some(AsF64(1))
    ELSE None

\* C14: in a built record each of the two numeric fields, expected and
\* desired alike, holds the number parsed or recovered from its cell when
\* there is one; when there is none it holds exactly 1 if the cell has the
\* word fresh in any case and is absent otherwise, and the cell's text is in
\* the notes either way.
C14_FreshFallback ==
    fruit_res = "Ok" =>
        /\ fruit_raw.expected_rancidness = FieldValueFor(triple[2])
        /\ fruit_raw.desired_rancidness = FieldValueFor(triple[3])
        /\ \A j \in 2..3 :
            (~StrictlyParsed(triple[j]) /\ ~HasDigit(triple[j]))
                => contains(fruit_raw.notes, triple[j])
C14_Witness ==
    /\ triple = <<Yes, <<"3">>, <<"F","r","e","s","h">>>>
    /\ fruit_res = "Ok"
    /\ fruit_raw = Fruit(TRUE, Some(Fin(3, 1)), Some(Fin(1, 1)),
                         <<"F","r","e","s","h">>)

\* the field of cell c needed recovery, so its text goes to the notes
Contributed(c) == ~StrictlyParsed(c)

\* C15: the notes of a built record hold the separator exactly when both
\* numeric cells contributed a note, and are then the expected text, the
\* separator and the desired text; with one contributing cell the notes
\* are that cell's text, and with none they are empty.
C15_NotesComposition ==
    fruit_res = "Ok" =>
        /\ contains(fruit_raw.notes, Separator)
              <=> (Contributed(triple[2]) /\ Contributed(triple[3]))
        /\ fruit_raw.notes =
              (IF Contributed(triple[2]) THEN triple[2] ELSE <<>>)
              \o (IF Contributed(triple[2]) /\ Contributed(triple[3])
                  THEN Separator ELSE <<>>)
              \o (IF Contributed(triple[3]) THEN triple[3] ELSE <<>>)

\* the cell of row r (counted from 1 in the whole row) at which ingesting r
\* stops: the first bad cell, or the first missing one
FailureCell(r) ==
    IF BadCells(skip(r, SkippedCells)) # {}
    THEN SkippedCells + Least(BadCells(skip(r, SkippedCells)))
    ELSE Len(r) + 1

\* C16: the failure reported for a fatal row-level error identifies the row
\* and the field: no row of the dataset's width, placed as any other row or
\* failing at any other cell, would stop the run with the same report.
C16_FailureNamesRowAndField ==
    (pc = "panicked" /\ stderr[1] = "data ingest error") =>
        \A n \in 1..MaxRows : \A r \in RowsFor(width) :
            (/\ Len(r) = width
             /\ Response_from_iter(skip(r, SkippedCells)).res = "Err"
             /\ stderr = <<"data ingest error",
                           Response_from_iter(skip(r, SkippedCells)).err>>)
            => /\ n = Len(records)
               /\ FailureCell(r) = FailureCell(records[Len(records)])

\* an average of the report is 0 when no ingested row has the value (has
\* tells which rows have it), and lies in [1, 5] when some row has it
AverageTellsPresence(avg, has) ==
    /\ avg = AsF64(0) <=> ~(\E i \in 1..Len(responses) : has[i])
    /\ (\E i \in 1..Len(responses) : has[i])
          => (FLe(AsF64(ScaleMin), avg) /\ FLe(avg, AsF64(ScaleMax)))

\* C17: in the report of a finished pipeline, for every item and each of
\* the two numeric fields, the average is 0 exactly when no row has a
\* present value of that field, and otherwise lies in [1, 5].
C17_AverageZeroIffAbsent ==
    pc \in {"write_result", "done"} =>
        \A k \in 1..NumItems :
            /\ AverageTellsPresence(
                  flattened_report[k].average_expected_rancidness,
                  [i \in 1..Len(responses) |->
                      responses[i][k].expected_rancidness.some])
            /\ AverageTellsPresence(
                  flattened_report[k].average_desired_rancidness,
                  [i \in 1..Len(responses) |->
                      responses[i][k].desired_rancidness.some])

====
